---- MODULE Spec2Model ----
(***************************************************************************)
(* fontmake-mp (fmp.py): concurrent font compilation from UFO sources.     *)
(*                                                                         *)
(* main(argv) handles the help/version/usage flags, validates every path   *)
(* of the list, then either runs build_fonts once on the calling process   *)
(* (one path) or creates a multiprocessing Pool and maps build_fonts over  *)
(* the list.  build_fonts calls the fontmake compiler and, when it raises  *)
(* an Exception, writes a diagnostic under the module-level lock.          *)
(*                                                                         *)
(* Process 0 is the main process; processes 1..poolSize are the pool's     *)
(* workers.  The model follows the fork start method, where the workers    *)
(* inherit the one module-level lock of the parent.                        *)
(***************************************************************************)
EXTENDS Integers, Sequences, FiniteSets, TLC

(* ------------------------------ bounds -------------------------------- *)

\* longest argument list drawn from the whole argument alphabet
MaxArgs == 2
\* longest list of valid source paths run on a host of several cores
MaxPooled == 3
\* longest list of valid source paths, run on a single-core host
MaxJobs == 5
\* largest cpu_count() of the host
MaxCpu == 3

(* --------------------------- program constants ------------------------ *)

\* fmp.py:21
PROCESSES == 0

\* fmp.py:22
BUILD_FILE_TYPE == <<"ttf", "otf">>

(* ------------------------- command-line arguments --------------------- *)

\* strings are sequences of characters, so that len() and [-4:] are computed
UFO_A == <<"a", ".", "u", "f", "o">>
UFO_B == <<"b", ".", "u", "f", "o">>
\* well formed, but no such directory exists
UFO_MISSING == <<"c", ".", "u", "f", "o">>
\* ends with .ufo but shorter than five characters
UFO_SHORT == <<".", "u", "f", "o">>
FLAG_TTF == <<"-", "-", "t", "t", "f">>
FLAG_OTF == <<"-", "-", "o", "t", "f">>
FLAG_H == <<"-", "h">>
FLAG_HELP == <<"-", "-", "h", "e", "l", "p">>
FLAG_V == <<"-", "v">>
FLAG_VERSION == <<"-", "-", "v", "e", "r", "s", "i", "o", "n">>
FLAG_USAGE == <<"-", "-", "u", "s", "a", "g", "e">>

DOT_UFO == <<".", "u", "f", "o">>

\* the directories that exist on the host: os.path.isdir
Directories == {UFO_A, UFO_B}

isdir(path) == path \in Directories

ArgPool ==
    {UFO_A, UFO_B, UFO_MISSING, UFO_SHORT, FLAG_TTF, FLAG_OTF, FLAG_H, FLAG_V, FLAG_USAGE}

SeqsUpTo(S, n) == UNION {[1..k -> S] : k \in 0..n}

\* a longer list of existing source directories, duplicates included
LongList(n) == [k \in 1..n |-> IF k % 2 = 1 THEN UFO_A ELSE UFO_B]

\* the invocations explored, each an argument list and the host's number of
\* cores: every short argument list on every host, longer lists of valid
\* paths on the hosts with fewer cores than paths (where jobs wait for a free
\* worker), and the longest lists on a single-core host (where Pool.map
\* batches several jobs into one task)
Invocations ==
    (SeqsUpTo(ArgPool, MaxArgs) \X (1..MaxCpu))
    \cup {<<LongList(n), c>> : n \in (MaxArgs + 1)..MaxPooled, c \in 1..(MaxPooled - 1)}
    \cup ({LongList(n) : n \in (MaxPooled + 1)..MaxJobs} \X {1})

\* the messages a compiler failure can carry: str(e)
Messages == {"bad glyph"}

\* what FontProject.run_from_ufos can do: return, raise an Exception
\* subclass, or raise a BaseException that is no Exception (SystemExit,
\* KeyboardInterrupt)
CompilerOutcomes ==
    {[kind |-> "ok", msg |-> ""]}
    \cup {[kind |-> "exception", msg |-> m] : m \in Messages}
    \cup {[kind |-> "base_exception", msg |-> ""]}

(* -------------------------------- state ------------------------------- *)

VARIABLES
    argv,              \* sys.argv[1:]
    cpu,               \* cpu_count() of the host
    failFast,          \* Pool.map raises on the first failed task (Python 2)
                       \* or only once every task has reported (Python 3)
    pc,                \* position of the main process in main()
    source_path_list,  \* main's source_path_list
    idx,               \* position of the validation loop in source_path_list
    processes,         \* main's processes
    poolSize,          \* number of workers of the Pool, 0 when none was created
    taskq,             \* the Pool's task queue: batches of job positions
    running,           \* running[w]: the batch process w is working through
    job,               \* job[j]: state of the build_fonts call for position j
    lock,              \* the module-level Lock: TRUE when held
    reported,          \* number of tasks whose result reached Pool.map
    taskFailed,        \* some task reported a raised Exception
    out,               \* the lines written to the terminal, in order
    exitStatus         \* exit status of the process, -1 while it runs

vars == <<argv, cpu, failFast, pc, source_path_list, idx, processes, poolSize,
          taskq, running, job, lock, reported, taskFailed, out, exitStatus>>

mainVars == <<pc, source_path_list, idx, processes, exitStatus>>
poolVars == <<poolSize, taskq, running, reported, taskFailed>>
envVars == <<argv, cpu, failFast>>

Procs == 0..MaxCpu

\* a job before build_fonts is called for it: where the call stands, how
\* often the compiler was called for it, the output formats asked of the
\* compiler, what the compiler did, and how often the call took the lock
NewJob ==
    [st |-> "unstarted", calls |-> 0, output |-> <<>>, kind |-> "none", msg |-> "",
     acquired |-> 0]

Line(stream, j, text, path) ==
    [stream |-> stream, job |-> j, text |-> text, path |-> path]

Init ==
    /\ \E inv \in Invocations : argv = inv[1] /\ cpu = inv[2]
    /\ failFast \in BOOLEAN
    /\ pc = "flags"
    /\ source_path_list = <<>>
    /\ idx = 0
    /\ processes = 0
    /\ poolSize = 0
    /\ taskq = <<>>
    /\ running = [w \in Procs |-> <<>>]
    /\ job = <<>>
    /\ lock = FALSE
    /\ reported = 0
    /\ taskFailed = FALSE
    /\ out = <<>>
    /\ exitStatus = -1

\* sys.exit(status), or the interpreter ending on an uncaught exception
Exit(status) ==
    /\ pc' = "exited"
    /\ exitStatus' = status

(* -------------------------- main: flag handling ----------------------- *)

\* fmp.py:65-67
ShowHelp ==
    /\ pc = "flags"
    /\ Len(argv) > 0
    /\ argv[1] \in {FLAG_H, FLAG_HELP}
    /\ out' = Append(out, Line("stdout", 0, "HELP", <<>>))
    /\ Exit(0)
    /\ UNCHANGED <<envVars, poolVars, source_path_list, idx, processes, job, lock>>

\* fmp.py:68-70
ShowVersion ==
    /\ pc = "flags"
    /\ Len(argv) > 0
    /\ argv[1] \in {FLAG_V, FLAG_VERSION}
    /\ out' = Append(out, Line("stdout", 0, "VERSION", <<>>))
    /\ Exit(0)
    /\ UNCHANGED <<envVars, poolVars, source_path_list, idx, processes, job, lock>>

\* fmp.py:71-73
ShowUsage ==
    /\ pc = "flags"
    /\ Len(argv) > 0
    /\ argv[1] = FLAG_USAGE
    /\ out' = Append(out, Line("stdout", 0, "USAGE", <<>>))
    /\ Exit(0)
    /\ UNCHANGED <<envVars, poolVars, source_path_list, idx, processes, job, lock>>

\* fmp.py:65: argv[0] on an empty list raises IndexError, which nothing
\* catches: the interpreter prints the traceback and exits with status 1
ArgvIndexError ==
    /\ pc = "flags"
    /\ Len(argv) = 0
    /\ out' = Append(out, Line("stderr", 0, "Traceback: IndexError", <<>>))
    /\ Exit(1)
    /\ UNCHANGED <<envVars, poolVars, source_path_list, idx, processes, job, lock>>

(* ------------------------ main: path validation ----------------------- *)

\* fmp.py:82-85
MissingPathsError ==
    "[ERROR] Please include one or more paths to UFO source directories as arguments to the script."

\* fmp.py:75-86: the list of source paths is the whole argument list; the
\* empty-list branch is kept as the code has it
SetSources ==
    /\ pc = "flags"
    /\ Len(argv) > 0
    /\ argv[1] \notin {FLAG_H, FLAG_HELP, FLAG_V, FLAG_VERSION, FLAG_USAGE}
    /\ processes' = PROCESSES
    /\ source_path_list' = argv
    /\ IF Len(argv) = 0
       THEN /\ out' = Append(out, Line("stderr", 0, MissingPathsError, <<>>))
            /\ Exit(1)
            /\ idx' = idx
       ELSE /\ pc' = "validate"
            /\ idx' = 1
            /\ UNCHANGED <<out, exitStatus>>
    /\ UNCHANGED <<envVars, poolVars, job, lock>>

\* source_path[-4:]
LastFour(s) == IF Len(s) <= 4 THEN s ELSE SubSeq(s, Len(s) - 3, Len(s))

\* a validation loop that never asks whether the path is a directory
PathError_NoDirCheck(source_path) ==
    IF Len(source_path) < 5
    THEN "[ERROR] is not properly formatted as a path to a UFO source directory"
    ELSE IF ~(LastFour(source_path) = DOT_UFO)
    THEN "[ERROR] does not appear to be a UFO source directory"
    ELSE ""

\* fmp.py:89-114: the error the loop body finds in one path, "" when none
PathError(source_path) ==
    IF Len(source_path) < 5
    THEN "[ERROR] is not properly formatted as a path to a UFO source directory"
    ELSE IF ~(LastFour(source_path) = DOT_UFO)
    THEN "[ERROR] does not appear to be a UFO source directory"
    ELSE IF ~isdir(source_path)
    THEN "[ERROR] does not appear to be a valid path to a UFO source directory"
    ELSE ""

\* fmp.py:88-114: one iteration of the validation loop
ValidatePath ==
    /\ pc = "validate"
    /\ idx <= Len(source_path_list)
    /\ LET source_path == source_path_list[idx] IN
       IF PathError(source_path) # ""
       THEN /\ out' = Append(out, Line("stderr", 0, PathError(source_path), source_path))
            /\ Exit(1)
            /\ idx' = idx
       ELSE /\ idx' = idx + 1
            /\ UNCHANGED <<out, pc, exitStatus>>
    /\ UNCHANGED <<envVars, poolVars, source_path_list, processes, job, lock>>

(* --------------------------- main: dispatch --------------------------- *)

\* a worker count that is never limited to the number of compiles
WorkerCount_Unlimited(requested, cores, njobs) ==
    IF requested = 0 THEN cores ELSE requested

\* fmp.py:130-138: the number of processes handed to Pool
WorkerCount(requested, cores, njobs) ==
    LET p == IF requested = 0 THEN cores ELSE requested
    IN  IF p > njobs THEN njobs ELSE p

\* a main that spawns processes even for a single compile
SingleCompile_Never(n) == FALSE

\* fmp.py:120: only one source compile is necessary
SingleCompile(n) == n = 1

\* fmp.py:117-118
AnnounceLines ==
    <<Line("stdout", 0, " ", <<>>),
      Line("stdout", 0, "[*] Beginning fontmake-mp font compile...", <<>>)>>

\* fmp.py:122-125
SingleLines ==
    <<Line("stdout", 0, "[*] Single font compile requested. Concurrency is not necessary.", <<>>),
      Line("stdout", 0, " ", <<>>)>>

\* fmp.py:130-148: what main prints while it chooses the number of processes
PoolLines(requested, cores, njobs) ==
    (IF requested = 0
     THEN <<Line("stdout", 0, "[*] Detected cores...", <<>>)>>
     ELSE <<Line("stdout", 0, "[*] Spawning processes for the compile...", <<>>)>>)
    \o (IF (IF requested = 0 THEN cores ELSE requested) > njobs
        THEN <<Line("stdout", 0, "[*] Limiting spawned process number to the number of font compiles needed", <<>>)>>
        ELSE <<>>)
    \o <<Line("stdout", 0, "[*] Output from the fontmake compiler will appear out of order below.", <<>>),
          Line("stdout", 0, " ", <<>>),
          Line("stdout", 0, " ", <<>>)>>

\* fmp.py:116-148: after the loop, announce the compile and choose the path
BeginCompile ==
    /\ pc = "validate"
    /\ idx > Len(source_path_list)
    /\ job' = [j \in 1..Len(source_path_list) |-> NewJob]
    /\ IF SingleCompile(Len(source_path_list))
       THEN \* fmp.py:120-126: build_fonts is called on the main process
            /\ out' = out \o AnnounceLines \o SingleLines
            /\ running' = [running EXCEPT ![0] = <<1>>]
            /\ pc' = "fast"
            /\ UNCHANGED processes
       ELSE \* fmp.py:129-148
            /\ processes' = WorkerCount(processes, cpu, Len(source_path_list))
            /\ out' = out \o AnnounceLines
                          \o PoolLines(processes, cpu, Len(source_path_list))
            /\ pc' = "pool"
            /\ UNCHANGED running
    /\ UNCHANGED <<envVars, source_path_list, idx, exitStatus, poolSize, taskq,
                   reported, taskFailed, lock>>

\* Pool.map's batch size: divmod(len(iterable), len(pool) * 4), rounded up
ChunkSize(n, workers) ==
    LET q == n \div (workers * 4)
        r == n % (workers * 4)
    IN  IF r # 0 THEN q + 1 ELSE q

Min(a, b) == IF a < b THEN a ELSE b

\* Pool.map's tasks: consecutive batches of ChunkSize positions of the list
Chunks(n, workers) ==
    LET c == ChunkSize(n, workers)
        k == (n + c - 1) \div c
    IN  [t \in 1..k |-> [m \in 1..(Min(t * c, n) - (t - 1) * c) |-> (t - 1) * c + m]]

\* fmp.py:150-151: create the pool and hand the whole list to map, which
\* blocks the main process until the tasks have reported
CreatePoolAndMap ==
    /\ pc = "pool"
    /\ poolSize' = processes
    /\ taskq' = Chunks(Len(source_path_list), processes)
    /\ pc' = "map"
    /\ UNCHANGED <<envVars, source_path_list, idx, processes, exitStatus,
                   running, reported, taskFailed, job, lock, out>>

NumTasks == IF poolSize = 0 THEN 0 ELSE Len(Chunks(Len(source_path_list), poolSize))

(* ------------------------------ build_fonts --------------------------- *)

\* process w is inside build_fonts for the job at the head of its batch
Active(w) ==
    /\ running[w] # <<>>
    /\ \/ w = 0 /\ pc = "fast"
       \/ w \in 1..poolSize /\ pc = "map"

Current(w) == Head(running[w])

SetJob(j, st) == job' = [job EXCEPT ![j].st = st]

\* fmp.py:156-158: enter build_fonts and call the compiler for the path
CallCompiler(w) ==
    /\ Active(w)
    /\ job[Current(w)].st = "unstarted"
    /\ job' = [job EXCEPT ![Current(w)].st = "compiling",
                          ![Current(w)].calls = @ + 1,
                          ![Current(w)].output = BUILD_FILE_TYPE]
    /\ UNCHANGED <<envVars, mainVars, poolVars, lock, out>>

\* fmp.py:156-159: where the compiler's outcome takes build_fonts: past the
\* try on success, into the handler on an Exception, out of the function on
\* any other BaseException
AfterCompile(kind) ==
    IF kind = "ok" THEN "returned"
    ELSE IF kind = "exception" THEN "acquire"
    ELSE "escaped"

\* fmp.py:158-159: the compiler call ends
CompilerReturns(w, o) ==
    /\ Active(w)
    /\ job[Current(w)].st = "compiling"
    /\ job' = [job EXCEPT ![Current(w)].st = AfterCompile(o.kind),
                          ![Current(w)].kind = o.kind,
                          ![Current(w)].msg = o.msg]
    /\ UNCHANGED <<envVars, mainVars, poolVars, lock, out>>

\* an acquire that does not wait for the lock
CanAcquire_NoWait == TRUE

\* fmp.py:160: lock.acquire() returns only when the lock is free
CanAcquire == ~lock

\* fmp.py:160
Acquire(w) ==
    /\ Active(w)
    /\ job[Current(w)].st = "acquire"
    /\ CanAcquire
    /\ lock' = TRUE
    /\ job' = [job EXCEPT ![Current(w)].st = "header",
                          ![Current(w)].acquired = @ + 1]
    /\ UNCHANGED <<envVars, mainVars, poolVars, out>>

\* fmp.py:161-168: the lines of the diagnostic's header
HeaderLines(j) ==
    <<Line("stdout", j, " ", <<>>),
      Line("stdout", j, "[ERROR] The fontmake compile for ... failed with the following error:",
           source_path_list[j])>>

\* fmp.py:169: traceback.print_exc() writes to the error stream
TracebackLines(j) == <<Line("stderr", j, "Traceback: " \o job[j].msg, <<>>)>>

\* a handler that forgets to print the compiler's message
MessageLines_Dropped(j) == <<>>

\* fmp.py:170-171
MessageLines(j) == <<Line("stdout", j, job[j].msg, <<>>)>>

\* one write of the handler: it either puts its lines out and goes on, or
\* raises (a closed or broken stream) and leaves build_fonts by the exception
Write(w, from, lines, to, ok) ==
    /\ Active(w)
    /\ job[Current(w)].st = from
    /\ IF ok
       THEN /\ out' = out \o lines
            /\ SetJob(Current(w), to)
       ELSE /\ SetJob(Current(w), "raised")
            /\ out' = out
    /\ UNCHANGED <<envVars, mainVars, poolVars, lock>>

\* fmp.py:161-168
WriteHeader(w, ok) == Write(w, "header", HeaderLines(Current(w)), "traceback", ok)

\* fmp.py:169
WriteTraceback(w, ok) == Write(w, "traceback", TracebackLines(Current(w)), "message", ok)

\* fmp.py:170-171
WriteMessage(w, ok) == Write(w, "message", MessageLines(Current(w)), "release", ok)

\* fmp.py:172: lock.release(), then build_fonts returns None
Release(w) ==
    /\ Active(w)
    /\ job[Current(w)].st = "release"
    /\ lock' = FALSE
    /\ SetJob(Current(w), "returned")
    /\ UNCHANGED <<envVars, mainVars, poolVars, out>>

(* --------------------------- the pool's workers ----------------------- *)

\* a worker of the pool takes the next batch from the task queue
TakeTask(w) ==
    /\ pc = "map"
    /\ w \in 1..poolSize
    /\ running[w] = <<>>
    /\ taskq # <<>>
    /\ running' = [running EXCEPT ![w] = Head(taskq)]
    /\ taskq' = Tail(taskq)
    /\ UNCHANGED <<envVars, mainVars, poolSize, reported, taskFailed, job, lock, out>>

\* build_fonts returned: the worker goes on to the next position of its
\* batch, and reports the batch once it is through
JobReturns(w) ==
    /\ w \in 1..poolSize
    /\ Active(w)
    /\ job[Current(w)].st = "returned"
    /\ running' = [running EXCEPT ![w] = Tail(running[w])]
    /\ reported' = IF Tail(running[w]) = <<>> THEN reported + 1 ELSE reported
    /\ UNCHANGED <<envVars, mainVars, poolSize, taskq, taskFailed, job, lock, out>>

\* build_fonts raised an Exception: the worker's loop catches it, gives up
\* the rest of the batch and reports the batch as failed
TaskRaises(w) ==
    /\ w \in 1..poolSize
    /\ Active(w)
    /\ job[Current(w)].st = "raised"
    /\ running' = [running EXCEPT ![w] = <<>>]
    /\ reported' = reported + 1
    /\ taskFailed' = TRUE
    /\ UNCHANGED <<envVars, mainVars, poolSize, taskq, job, lock, out>>

\* build_fonts let a BaseException through: the worker's loop does not catch
\* it, the worker process ends without reporting its batch, and the pool
\* puts a fresh worker in its place
WorkerDies(w) ==
    /\ w \in 1..poolSize
    /\ Active(w)
    /\ job[Current(w)].st = "escaped"
    /\ running' = [running EXCEPT ![w] = <<>>]
    /\ UNCHANGED <<envVars, mainVars, poolSize, taskq, reported, taskFailed, job, lock, out>>

(* ----------------------------- main: the end -------------------------- *)

\* fmp.py:126-127: build_fonts returned on the main process
FastReturn ==
    /\ pc = "fast"
    /\ job[1].st = "returned"
    /\ Exit(0)
    /\ UNCHANGED <<envVars, poolVars, source_path_list, idx, processes, job, lock, out>>

\* fmp.py:126: build_fonts raised on the main process and nothing catches
\* it: the interpreter ends with a non-zero status
FastUncaught ==
    /\ pc = "fast"
    /\ job[1].st \in {"raised", "escaped"}
    /\ out' = Append(out, Line("stderr", 0, "Traceback: uncaught", <<>>))
    /\ Exit(1)
    /\ UNCHANGED <<envVars, poolVars, source_path_list, idx, processes, job, lock>>

\* fmp.py:151-152: map returns once every task has reported, none failed
MapReturn ==
    /\ pc = "map"
    /\ reported = NumTasks
    /\ ~taskFailed
    /\ Exit(0)
    /\ UNCHANGED <<envVars, poolVars, source_path_list, idx, processes, job, lock, out>>

\* fmp.py:151: map re-raises a task's Exception in the main process, which
\* does not catch it; the daemonic workers end with the main process
MapRaises ==
    /\ pc = "map"
    /\ taskFailed
    /\ failFast \/ reported = NumTasks
    /\ out' = Append(out, Line("stderr", 0, "Traceback: uncaught", <<>>))
    /\ Exit(1)
    /\ UNCHANGED <<envVars, poolVars, source_path_list, idx, processes, job, lock>>

(* ---------------------------- specification --------------------------- *)

Next ==
    \/ ShowHelp
    \/ ShowVersion
    \/ ShowUsage
    \/ ArgvIndexError
    \/ SetSources
    \/ ValidatePath
    \/ BeginCompile
    \/ CreatePoolAndMap
    \/ \E w \in Procs : CallCompiler(w)
    \/ \E w \in Procs, o \in CompilerOutcomes : CompilerReturns(w, o)
    \/ \E w \in Procs : Acquire(w)
    \/ \E w \in Procs, ok \in BOOLEAN : WriteHeader(w, ok)
    \/ \E w \in Procs, ok \in BOOLEAN : WriteTraceback(w, ok)
    \/ \E w \in Procs, ok \in BOOLEAN : WriteMessage(w, ok)
    \/ \E w \in Procs : Release(w)
    \/ \E w \in Procs : TakeTask(w)
    \/ \E w \in Procs : JobReturns(w)
    \/ \E w \in Procs : TaskRaises(w)
    \/ \E w \in Procs : WorkerDies(w)
    \/ FastReturn
    \/ FastUncaught
    \/ MapReturn
    \/ MapRaises

Spec == Init /\ [][Next]_vars

\* the steps of the main process
MainStep ==
    \/ ShowHelp \/ ShowVersion \/ ShowUsage \/ ArgvIndexError
    \/ SetSources \/ ValidatePath \/ BeginCompile \/ CreatePoolAndMap
    \/ FastReturn \/ FastUncaught \/ MapReturn \/ MapRaises

\* the steps of process w inside build_fonts and the pool's worker loop; the
\* compiler call is taken to end
WorkerStep(w) ==
    \/ CallCompiler(w)
    \/ \E o \in CompilerOutcomes : CompilerReturns(w, o)
    \/ Acquire(w)
    \/ \E ok \in BOOLEAN : WriteHeader(w, ok) \/ WriteTraceback(w, ok) \/ WriteMessage(w, ok)
    \/ Release(w)
    \/ TakeTask(w) \/ JobReturns(w) \/ TaskRaises(w) \/ WorkerDies(w)

\* the operating system schedules every process that can take a step
FairSpec ==
    /\ Spec
    /\ WF_vars(MainStep)
    /\ \A w \in Procs : WF_vars(WorkerStep(w))

(* ------------------------------ properties ---------------------------- *)

Exited == pc = "exited"

\* main got past validation and created the jobs of the run
Dispatched == Len(job) > 0

\* a pool was created for the run
PoolCreated == Len(job) > 1 /\ pc \in {"map", "exited"}

Jobs == DOMAIN job

\* the build_fonts call for position j is over: it returned or it raised
Finished(j) == job[j].st \in {"returned", "raised", "escaped"}

\* the compiler was called for position j and signalled a failure
Failed(j) == job[j].kind \in {"exception", "base_exception"}

\* position j is between lock.acquire() and lock.release()
InCriticalSection(j) == job[j].st \in {"header", "traceback", "message", "release"}

\* the lines of the diagnostic of position j that were written
DiagnosticOf(j) == SelectSeq(out, LAMBDA l : l.job = j)

\* nothing is left that the program could do
Stopped == ~ENABLED Next

\* C1: a run that passed validation and dispatched its jobs exits with
\* status 0 if and only if the compiler succeeded for every job; one failed
\* compile makes the status 1
C1_ExitStatusIffAllSucceeded ==
    (Exited /\ Dispatched) =>
        (exitStatus = 0 <=> \A j \in Jobs : job[j].kind = "ok")

\* C2: when the process exits after a validated list of more than one path,
\* there is one job per position of the list and each was started and
\* completed exactly once
C2_OneExecutionPerPosition ==
    (Exited /\ Dispatched /\ Len(source_path_list) > 1) =>
        /\ Len(job) = Len(source_path_list)
        /\ \A j \in Jobs : Finished(j) /\ job[j].calls = 1

\* C3: once a pooled run has come to a stop, a compiler failure in one job
\* has kept no other job from being attempted and completed
C3_FailureIsolation ==
    (Stopped /\ PoolCreated) =>
        \A i \in Jobs, j \in Jobs : (i # j /\ Failed(i)) => Finished(j)

\* C4: at most one job is inside the diagnostic-write critical section, and
\* the lines of one job's diagnostic are contiguous in the output: no line of
\* another writer stands between two of them
C4_DiagnosticsNeverInterleave ==
    /\ Cardinality({j \in Jobs : InCriticalSection(j)}) <= 1
    /\ \A a \in DOMAIN out : out[a].job # 0 =>
          \A c \in (a + 2)..Len(out) : out[c].job = out[a].job =>
              \A b \in (a + 1)..(c - 1) : out[b].job = out[a].job

\* C4's case: in a pooled run one failing job is in the middle of its
\* diagnostic while another failing job waits for the lock
C4_Witness ==
    /\ pc = "map"
    /\ \E i \in Jobs, j \in Jobs :
          /\ job[i].st = "traceback"
          /\ job[j].st = "acquire"

\* C5: the lock is free whenever no diagnostic write is in progress: every
\* way out of a write, a raising write included, releases it
C5_LockReleasedOnEveryPath ==
    lock => \E j \in Jobs : InCriticalSection(j)

\* C6: build_fonts never lets a failure out: no call ends by an exception,
\* and a call that returns after a failed compile has written a diagnostic
C6_NoFailureEscapes ==
    \A j \in Jobs :
        /\ job[j].st \notin {"raised", "escaped"}
        /\ (job[j].st = "returned" /\ Failed(j)) => DiagnosticOf(j) # <<>>

\* C7: with PROCESSES = 0 the pool has min(cpu_count(), number of jobs)
\* workers, and at least one
C7_PoolSizeIsMinCpuJobs ==
    (PoolCreated /\ PROCESSES = 0) =>
        /\ poolSize = (IF cpu < Len(source_path_list) THEN cpu ELSE Len(source_path_list))
        /\ poolSize >= 1

\* C7's case: a pool was created on a host with more cores than jobs
C7_Witness ==
    /\ PoolCreated
    /\ PROCESSES = 0
    /\ cpu > Len(source_path_list)
    /\ \E j \in Jobs : job[j].st = "compiling"

\* C8: an invocation with an empty path list runs no job, writes the
\* missing-paths error and exits with status 1
C8_EmptyListReported ==
    (Exited /\ argv = <<>>) =>
        /\ job = <<>>
        /\ exitStatus = 1
        /\ \E k \in DOMAIN out : out[k].stream = "stderr" /\ out[k].text = MissingPathsError

\* a path the validation must refuse: too short, without the .ufo
\* extension, or no existing directory
BadPath(p) ==
    \/ Len(p) < 5
    \/ \E k \in 1..4 : p[Len(p) - 4 + k] # DOT_UFO[k]
    \/ p \notin Directories

\* C9: when some path of the list is bad, at whatever position, no job is ever
\* created or started and no pool is made, and the process exits with
\* status 1 after writing an error to the error stream
C9_PreconditionErrorsFatal ==
    (\E k \in DOMAIN source_path_list : BadPath(source_path_list[k])) =>
        /\ job = <<>>
        /\ poolSize = 0
        /\ pc \in {"validate", "exited"}
        /\ Exited =>
              /\ exitStatus = 1
              /\ out # <<>>
              /\ out[Len(out)].stream = "stderr"
              /\ out[Len(out)].job = 0
              /\ \E k \in DOMAIN source_path_list :
                    /\ out[Len(out)].path = source_path_list[k]
                    /\ BadPath(source_path_list[k])

\* C9's case: the process has exited on a bad path that follows a valid one
C9_Witness ==
    /\ Exited
    /\ Len(source_path_list) = 2
    /\ ~BadPath(source_path_list[1])
    /\ BadPath(source_path_list[2])
    /\ idx = 2

\* C10: the process does not exit while a job of the run is unstarted or in
\* progress, on the fast path and on the pooled path
C10_ExitAfterEveryJob ==
    (Exited /\ Dispatched) => \A j \in Jobs : Finished(j)

\* C11: for a validated list of exactly one path, build_fonts runs on the
\* main process: no pool is created, no task is queued, no worker runs, and
\* the compiler is called once, the one call being made by the exit
C11_SingleJobFastPath ==
    (Dispatched /\ Len(source_path_list) = 1) =>
        /\ pc \in {"fast", "exited"}
        /\ poolSize = 0
        /\ taskq = <<>>
        /\ \A w \in Procs \ {0} : running[w] = <<>>
        /\ Len(job) = 1
        /\ job[1].calls <= 1
        /\ Exited => job[1].calls = 1

\* C11's case: a single-path run has exited after its one compile returned
C11_Witness ==
    /\ Exited
    /\ Len(source_path_list) = 1
    /\ Len(job) = 1
    /\ job[1].st = "returned"
    /\ job[1].calls = 1

\* C12: with compiler calls that end and fair scheduling, a dispatched run
\* cannot come to a stop before every job has completed and the process has
\* exited: no process is left waiting for a task or for the lock
C12_EveryRunEnds ==
    (Dispatched /\ Stopped) => (Exited /\ \A j \in Jobs : Finished(j))

\* build_fonts is running for position j: between its call and its end
InProgress(j) ==
    job[j].st \in {"compiling", "acquire", "header", "traceback", "message", "release"}

\* C13: the pool's size is between 1 and the number of jobs, is the count
\* main computed and never changes once the pool exists; at most that many
\* jobs are in progress at once, each on a worker of its own
C13_WorkerCountBoundsConcurrency ==
    /\ [](PoolCreated =>
            /\ poolSize >= 1
            /\ poolSize <= Len(job)
            /\ poolSize = processes
            /\ Cardinality({j \in Jobs : InProgress(j)}) <= poolSize
            /\ \A j \in Jobs : InProgress(j) =>
                  Cardinality({w \in 1..poolSize :
                                  running[w] # <<>> /\ Head(running[w]) = j}) = 1)
    /\ [][poolSize # 0 => poolSize' = poolSize /\ processes' = processes]_vars

\* C13's case: more jobs than workers, every worker of a pool of two has a
\* job in progress and a task still waits in the queue
C13_Witness ==
    /\ PoolCreated
    /\ poolSize = 2
    /\ Cardinality({j \in Jobs : InProgress(j)}) = 2
    /\ taskq # <<>>

\* the whole diagnostic of position j is in the output: the blank line and
\* the header naming the path, the traceback, and the compiler's message
CompleteDiagnostic(j) ==
    LET d == DiagnosticOf(j)
    IN  /\ Len(d) = 4
        /\ d[2].path = source_path_list[j]
        /\ d[3].text = "Traceback: " \o job[j].msg
        /\ d[4].text = job[j].msg

\* C14: the diagnostic of every job whose compile failed is written in full,
\* and the lock given back, by the time build_fonts ends for that job, and
\* so by the time the process exits: none is deferred or lost
C14_DiagnosticBeforeCompletion ==
    \A j \in Jobs :
        (Failed(j) /\ (Finished(j) \/ Exited)) =>
            (CompleteDiagnostic(j) /\ ~InCriticalSection(j))

\* a progress or status line of main
StatusLine(l) ==
    /\ l.job = 0
    /\ l.path = <<>>
    /\ l.text \notin {"HELP", "VERSION", "USAGE", MissingPathsError,
                      "Traceback: IndexError", "Traceback: uncaught"}

\* C15: every line of a job's failure diagnostic is on the error stream and
\* every progress line is on standard output
C15_StreamSeparation ==
    \A k \in DOMAIN out :
        /\ out[k].job # 0 => out[k].stream = "stderr"
        /\ StatusLine(out[k]) => out[k].stream = "stdout"

\* what was written for position j, without the position itself
Content(j) ==
    LET d == DiagnosticOf(j)
    IN  [k \in 1..Len(d) |-> <<d[k].stream, d[k].text, d[k].path>>]

\* the diagnostic a path and a compiler outcome call for, on whichever
\* process the job runs: nothing on success, four lines on an Exception
Expected(path, kind, msg) ==
    IF kind = "exception"
    THEN <<<<"stdout", " ", <<>>>>,
           <<"stdout", "[ERROR] The fontmake compile for ... failed with the following error:", path>>,
           <<"stderr", "Traceback: " \o msg, <<>>>>,
           <<"stdout", msg, <<>>>>>>
    ELSE <<>>

\* C16: the outcome of a job is the same function of its path and of what the
\* compiler did on the fast path (process 0) and in the pool (a worker): a
\* call that returned has the compiler's outcome and wrote exactly the
\* diagnostic that outcome calls for; a call ended by an exception wrote a
\* proper prefix of it
C16_FastAndPooledAgree ==
    \A j \in Jobs :
        LET want == Expected(source_path_list[j], job[j].kind, job[j].msg)
        IN  /\ job[j].st = "returned" =>
                  /\ job[j].kind \in {"ok", "exception"}
                  /\ Content(j) = want
            /\ job[j].st \in {"raised", "escaped"} =>
                  /\ Len(Content(j)) < Len(want) \/ want = <<>>
                  /\ Content(j) = SubSeq(want, 1, Len(Content(j)))

\* C16's case: in a pooled run a failed job has returned from a worker with
\* its diagnostic written
C16_Witness ==
    /\ PoolCreated
    /\ \E j \in Jobs :
          /\ job[j].st = "returned"
          /\ job[j].kind = "exception"
          /\ Len(Content(j)) = 4

\* the diagnostic written for position j names its path and holds its
\* compiler message
NamesOwnFailure(j) ==
    /\ \E k \in DOMAIN out : out[k].job = j /\ out[k].path = source_path_list[j]
    /\ \E k \in DOMAIN out : out[k].job = j /\ out[k].text = job[j].msg
    /\ \A k \in DOMAIN out : out[k].job = j => out[k].path \in {<<>>, source_path_list[j]}

\* C17: a two-job run whose first compile succeeded and whose second failed
\* with a message, both calls having returned, exits with status 1 with a
\* diagnostic for the second path only; and every failed job that returned
\* has a diagnostic naming its own path and message
C17_TwoJobScenario ==
    /\ (/\ Exited
        /\ Len(job) = 2
        /\ job[1].st = "returned" /\ job[1].kind = "ok"
        /\ job[2].st = "returned" /\ job[2].kind = "exception") =>
            /\ DiagnosticOf(1) = <<>>
            /\ NamesOwnFailure(2)
            /\ exitStatus = 1
    /\ \A j \in Jobs :
          (job[j].st = "returned" /\ job[j].kind = "exception") => NamesOwnFailure(j)

\* C18: a run given --ttf or --otf in front of valid source paths dispatches
\* one job per source path, and every compiler call of every run asks for
\* both output formats
C18_FormatFlagsIgnored ==
    /\ (/\ Exited
        /\ Len(argv) >= 2
        /\ argv[1] \in {FLAG_TTF, FLAG_OTF}
        /\ \A k \in 2..Len(argv) : argv[k] \in Directories) =>
            Len(job) = Len(argv) - 1
    /\ \A j \in Jobs : job[j].calls > 0 => job[j].output = <<"ttf", "otf">>

\* C19: a job whose compile succeeded never takes the lock and writes no
\* diagnostic; a job whose compile failed takes it exactly once by the time
\* its call is over; and the lock is held only while a failed job is between
\* its acquire and its release, never by a process that compiles or idles
C19_LockOnlyForOwnDiagnostic ==
    /\ \A j \in Jobs :
          /\ job[j].kind = "ok" => (job[j].acquired = 0 /\ DiagnosticOf(j) = <<>>)
          /\ job[j].st \in {"unstarted", "compiling"} => job[j].acquired = 0
          /\ (Failed(j) /\ Finished(j)) => job[j].acquired = 1
    /\ lock => \E j \in Jobs : InCriticalSection(j) /\ Failed(j)

====
